---- MODULE Spec2Model ----
(***************************************************************************)
(* Lore injection for Character Card V2 character books.                   *)
(*                                                                         *)
(* The repository defines the card format and documents, field by field,   *)
(* how a front-end uses a character book on each conversation turn: scan   *)
(* the last scan_depth messages for entry keys, decide which entries are   *)
(* candidates, drop the lowest-priority candidates while the combined      *)
(* content exceeds token_budget, and place what is left before or after    *)
(* the character definition ordered by insertion_order.                    *)
(*                                                                         *)
(* Text is a sequence of one-character strings.  An optional field is a    *)
(* set with at most one element: {} when the field is absent.              *)
(***************************************************************************)
EXTENDS Integers, Sequences, FiniteSets

\* ------------------------------------------------------------------ bounds
MaxHistory == 2      \* messages a session receives
MaxBudget == 3       \* largest token_budget of a book
MaxDepth == 2        \* largest scan_depth of a book
MaxPrompt == 4       \* longest instruction text of a card

\* ------------------------------------------------------------- optionals
Absent == {}

Opt(field, default) == IF field = Absent THEN default ELSE CHOOSE v \in field : TRUE

OptBool == {Absent, {TRUE}, {FALSE}}

\* ------------------------------------------------------------------- text
Fold(c) == IF c = "W" THEN "w" ELSE IF c = "J" THEN "j" ELSE c

FoldText(t) == [i \in 1..Len(t) |-> Fold(t[i])]

Occurs(key, text) ==
    \E i \in 0..(Len(text) - Len(key)) : SubSeq(text, i + 1, i + Len(key)) = key

\* Variant of KeyMatches: the key is folded, the scanned text is left as typed.
KeyMatchesFoldKeyOnly(key, text, case_sensitive) ==
    IF Opt(case_sensitive, FALSE)
    THEN Occurs(key, text)
    ELSE Occurs(FoldText(key), text)

\* One key against one text, honouring the entry's case_sensitive flag.
KeyMatches(key, text, case_sensitive) ==
    IF Opt(case_sensitive, FALSE)
    THEN Occurs(key, text)
    ELSE Occurs(FoldText(key), FoldText(text))

\* Some key of the list occurs in some scanned text.
AnyKeyMatches(keys, texts, case_sensitive) ==
    \E k \in keys : \E n \in 1..Len(texts) : KeyMatches(k, texts[n], case_sensitive)

\* Variants of ScanWindow: the oldest messages instead of the newest, and a
\* window that a scan_depth of 0 leaves unbounded.
ScanWindowOldest(history, scan_depth) ==
    IF scan_depth >= Len(history)
    THEN history
    ELSE SubSeq(history, 1, scan_depth)

ScanWindowSliceZero(history, scan_depth) ==
    IF scan_depth = 0 \/ scan_depth >= Len(history)
    THEN history
    ELSE SubSeq(history, Len(history) - scan_depth + 1, Len(history))

\* The last scan_depth messages of the history, fewer when it is shorter.
ScanWindow(history, scan_depth) ==
    IF scan_depth >= Len(history)
    THEN history
    ELSE SubSeq(history, Len(history) - scan_depth + 1, Len(history))

\* Size of a content in tokens: one token per element of the text.
TokenCount(content) == Len(content)

\* --------------------------------------------------- activation resolver
PrimaryMatched(e, texts) == AnyKeyMatches(e.keys, texts, e.case_sensitive)

\* Variant of SecondaryMatched: an entry without secondary keys has none to miss.
SecondaryMatchedVacuous(e, texts) ==
    \/ Opt(e.secondary_keys, {}) = {}
    \/ AnyKeyMatches(Opt(e.secondary_keys, {}), texts, e.case_sensitive)

SecondaryMatched(e, texts) ==
    AnyKeyMatches(Opt(e.secondary_keys, {}), texts, e.case_sensitive)

MatchEntry(e, texts) ==
    [primary |-> PrimaryMatched(e, texts), secondary |-> SecondaryMatched(e, texts)]

\* Variants of IsCandidate that get one flag wrong.
IsCandidateConstantFirst(e, m) ==
    \/ Opt(e.constant, FALSE)
    \/ /\ e.enabled
       /\ m.primary
       /\ (~Opt(e.selective, FALSE) \/ m.secondary)

IsCandidateAnyKey(e, m) ==
    /\ e.enabled
    /\ \/ Opt(e.constant, FALSE)
       \/ m.primary

IsCandidateConstantKeyed(e, m) ==
    /\ e.enabled
    /\ m.primary
    /\ \/ Opt(e.constant, FALSE)
       \/ ~Opt(e.selective, FALSE)
       \/ m.secondary

\* Variant of IsCandidate: secondary keys count whenever the entry has some.
IsCandidateSecondaryAlways(e, m) ==
    /\ e.enabled
    /\ \/ Opt(e.constant, FALSE)
       \/ /\ m.primary
          /\ (Opt(e.secondary_keys, {}) = {} \/ m.secondary)

IsCandidate(e, m) ==
    /\ e.enabled
    /\ \/ Opt(e.constant, FALSE)
       \/ /\ m.primary
          /\ (~Opt(e.selective, FALSE) \/ m.secondary)

\* ------------------------------------------------------ budget allocator
Range(s) == {s[n] : n \in 1..Len(s)}

Perms(S) ==
    {s \in [1..Cardinality(S) -> S] :
        \A m, n \in 1..Cardinality(S) : m # n => s[m] # s[n]}

\* Variant of HigherPriority: the lower priority value protects.
HigherPriorityLowest(a, b) ==
    \/ a.priority = Absent /\ b.priority # Absent
    \/ /\ a.priority # Absent
       /\ b.priority # Absent
       /\ Opt(a.priority, 0) < Opt(b.priority, 0)

\* Variant of HigherPriority: an unset priority is the lowest of all.
HigherPriorityAbsentLowest(a, b) ==
    \/ a.priority # Absent /\ b.priority = Absent
    \/ /\ a.priority # Absent
       /\ b.priority # Absent
       /\ Opt(a.priority, 0) > Opt(b.priority, 0)

\* a has the higher priority: the larger value, an unset priority being the
\* highest of all.
HigherPriority(a, b) ==
    \/ a.priority = Absent /\ b.priority # Absent
    \/ /\ a.priority # Absent
       /\ b.priority # Absent
       /\ Opt(a.priority, 0) > Opt(b.priority, 0)

\* Between equal priorities the lower insertion_order goes first.
EarlierAmongEquals(a, b) ==
    /\ a.priority = b.priority
    /\ a.insertion_order < b.insertion_order

\* a is kept in preference to b.
MoreProtected(a, b) == HigherPriority(a, b) \/ EarlierAmongEquals(a, b)

\* The candidates from the most protected to the most disposable.  Nothing
\* orders two candidates equal in priority and insertion_order, so every
\* order of such a pair is one the allocator may use.
AllocationOrders(entries, cands) ==
    {s \in Perms(cands) :
        \A m, n \in 1..Len(s) : m < n => ~MoreProtected(entries[s[n]], entries[s[m]])}

RECURSIVE SeqSize(_, _)
SeqSize(entries, order) ==
    IF order = <<>> THEN 0
    ELSE TokenCount(entries[Head(order)].content) + SeqSize(entries, Tail(order))

RECURSIVE SetSize(_, _)
SetSize(entries, S) ==
    IF S = {} THEN 0
    ELSE LET i == CHOOSE x \in S : TRUE
         IN TokenCount(entries[i].content) + SetSize(entries, S \ {i})

\* Variants of Evict: one that never drops the most protected candidate, and
\* one that passes over a candidate that does not fit and goes on.
RECURSIVE EvictKeepFirst(_, _, _)
EvictKeepFirst(entries, order, room) ==
    IF Len(order) <= 1 \/ SeqSize(entries, order) <= room THEN order
    ELSE EvictKeepFirst(entries, SubSeq(order, 1, Len(order) - 1), room)

RECURSIVE EvictSkipping(_, _, _)
EvictSkipping(entries, order, room) ==
    IF order = <<>> THEN <<>>
    ELSE IF TokenCount(entries[Head(order)].content) <= room
         THEN <<Head(order)>> \o
              EvictSkipping(entries, Tail(order),
                            room - TokenCount(entries[Head(order)].content))
         ELSE EvictSkipping(entries, Tail(order), room)

\* Variant of Evict: drops the most disposable candidate once and stops.
EvictOnce(entries, order, room) ==
    IF order = <<>> \/ SeqSize(entries, order) <= room THEN order
    ELSE SubSeq(order, 1, Len(order) - 1)

\* While the combined content exceeds the room, drop the most disposable.
RECURSIVE Evict(_, _, _)
Evict(entries, order, room) ==
    IF order = <<>> \/ SeqSize(entries, order) <= room THEN order
    ELSE Evict(entries, SubSeq(order, 1, Len(order) - 1), room)

\* The allocator as a greedy pass: admit in the order given, accumulate the
\* size, and stop at the first candidate that would exceed the room.
RECURSIVE Greedy(_, _, _)
Greedy(entries, order, room) ==
    IF order = <<>> THEN <<>>
    ELSE IF TokenCount(entries[Head(order)].content) > room THEN <<>>
         ELSE <<Head(order)>> \o
              Greedy(entries, Tail(order),
                     room - TokenCount(entries[Head(order)].content))

\* Variant of Room: the whole budget again on every pass.
RoomWholeBudget(entries, held, token_budget) == token_budget

\* What the budget leaves once the entries admitted earlier are counted.
Room(entries, held, token_budget) == token_budget - SetSize(entries, held)

\* --------------------------------------------------- placement assembler
Separator == <<"\n">>

\* Variant of Position: an entry without a position goes before the definition.
PositionDefaultBefore(e) == Opt(e.position, "before_char")

\* Where an entry is placed: after the character definition unless it says before.
Position(e) == Opt(e.position, "after_char")

\* Ascending insertion_order; equal values keep the order of book.entries.
RECURSIVE PlacementOrder(_, _)
PlacementOrder(entries, S) ==
    IF S = {} THEN <<>>
    ELSE LET first == CHOOSE i \in S : \A j \in S :
                 \/ entries[i].insertion_order < entries[j].insertion_order
                 \/ /\ entries[i].insertion_order = entries[j].insertion_order
                    /\ i <= j
         IN <<first>> \o PlacementOrder(entries, S \ {first})

RECURSIVE Join(_, _)
Join(entries, order) ==
    IF order = <<>> THEN <<>>
    ELSE IF Len(order) = 1 THEN entries[order[1]].content
    ELSE entries[order[1]].content \o Separator \o Join(entries, Tail(order))

\* Variant of PlacementOrders: the larger insertion_order comes first.
PlacementOrdersDescending(entries, S) ==
    {s \in Perms(S) : \A m, n \in 1..Len(s) :
        m < n => entries[s[m]].insertion_order >= entries[s[n]].insertion_order}

\* Every arrangement in ascending insertion_order; entries with the same value
\* come in the order of book.entries or in any other.
PlacementOrders(entries, S) ==
    {s \in Perms(S) : \A m, n \in 1..Len(s) :
        m < n => entries[s[m]].insertion_order <= entries[s[n]].insertion_order}

\* The texts a block may be: the contents placed at pos, in a placement order.
Blocks(entries, admitted, pos) ==
    {Join(entries, s) :
        s \in PlacementOrders(entries, {i \in admitted : Position(entries[i]) = pos})}

\* ------------------------------------------------------------ the cards
Filler(n) == [i \in 1..n |-> "x"]

Entry(keys, content, enabled, insertion_order, case_sensitive, priority, selective, secondary_keys, constant, position) ==
    [keys |-> keys, content |-> content, enabled |-> enabled,
     insertion_order |-> insertion_order, case_sensitive |-> case_sensitive,
     priority |-> priority, selective |-> selective,
     secondary_keys |-> secondary_keys, constant |-> constant,
     position |-> position]

CharacterBook(scan_depth, token_budget, recursive_scanning, entries) ==
    [scan_depth |-> scan_depth, token_budget |-> token_budget,
     recursive_scanning |-> recursive_scanning, entries |-> entries]

Depths == 0..MaxDepth
Budgets == 0..MaxBudget

\* An entry keyed on "w" whose activation flags take every combination.
FlagEntries ==
    {Entry({<<"w">>}, Filler(2), en, 1, Absent, Absent, sel, sec, con, Absent) :
        en \in BOOLEAN, sel \in OptBool, con \in OptBool,
        sec \in {Absent, {{}}, {{<<"j">>}}}}

\* An entry whose key and case_sensitive flag take every combination.
CaseEntries ==
    {Entry({k}, Filler(2), TRUE, 1, cs, Absent, Absent, Absent, Absent, Absent) :
        k \in {<<"w">>, <<"W">>}, cs \in OptBool}

\* A constant entry whose content names the keys of the entries above.
Almanac == Entry({<<"q">>}, <<"w", "j">>, TRUE, 2, Absent, {1}, Absent, Absent,
                 {TRUE}, {"before_char"})

ActivationBooks ==
    {CharacterBook(d, b, r, <<e, Almanac>>) :
        d \in Depths, b \in {1, MaxBudget}, r \in OptBool,
        e \in FlagEntries \cup CaseEntries}

\* Constant entries whose priority, insertion_order and size take every
\* combination, the largest size being over every budget.
SizedEntries ==
    {Entry({<<"q">>}, Filler(n), TRUE, o, Absent, p, Absent, Absent, {TRUE}, Absent) :
        n \in {1, 2, MaxBudget + 1}, o \in {1, 2}, p \in {Absent, {1}, {2}}}

Footnote == Entry({<<"q">>}, Filler(1), TRUE, 1, Absent, {1}, Absent, Absent,
                  {TRUE}, Absent)

BudgetBooks ==
    {CharacterBook(1, b, Absent, <<e1, e2, Footnote>>) :
        b \in Budgets, e1 \in SizedEntries, e2 \in SizedEntries}

\* Entries whose contents name each other's keys.
ChainBooks ==
    {CharacterBook(d, b, r,
        <<Entry({<<"w">>}, <<"j">>, TRUE, 1, Absent, p1, Absent, Absent, Absent, pos),
          Entry({<<"j">>}, <<"w">>, TRUE, 1, Absent, p2, Absent, Absent, Absent, Absent),
          Entry({<<"j">>}, Filler(2), TRUE, 2, Absent, p3, Absent, Absent, con, Absent)>>) :
        d \in Depths, b \in Budgets, r \in {Absent, {TRUE}},
        p1 \in {Absent, {1}}, p2 \in {{1}, {2}}, p3 \in {Absent, {2}},
        con \in {Absent, {TRUE}}, pos \in {Absent, {"before_char"}, {"after_char"}}}

\* An always-on entry with a content of its own, placed and ordered every way.
PlacedEntries(content) ==
    {Entry({<<"w">>}, content, TRUE, io, Absent, Absent, Absent, Absent, {TRUE}, pos) :
        io \in {1, 2}, pos \in {Absent, {"before_char"}, {"after_char"}}}

\* Three always-on entries that all fit the budget.
PlacementBooks ==
    {CharacterBook(1, MaxBudget, Absent, <<e1, e2, e3>>) :
        e1 \in PlacedEntries(<<"a">>), e2 \in PlacedEntries(<<"b">>),
        e3 \in PlacedEntries(<<"c">>)}

Books == ActivationBooks \cup BudgetBooks \cup ChainBooks \cup PlacementBooks

\* The identifying fields a document may carry.
Headers ==
    {[spec |-> s, spec_version |-> v] :
        s \in {"chara_card_v2", "chara_card_v3", ""}, v \in {"2.0", "1.0", "2"}}

\* Books as an author may write them: the format types scan_depth and
\* token_budget as numbers and does not keep them from being negative.
AuthoredBooks ==
    {CharacterBook(d, b, r,
        <<Entry({<<"w">>}, <<"j">>, TRUE, 1, Absent, Absent, sel, sec, Absent, Absent),
          Entry({<<"j">>}, <<"w">>, TRUE, 2, Absent, Absent, Absent, Absent, Absent, Absent),
          Entry({<<"j">>}, <<"x">>, TRUE, 3, Absent, {1}, Absent, Absent, {TRUE}, Absent)>>) :
        d \in {-1, 1}, b \in {-1, 1, MaxBudget}, r \in {Absent, {TRUE}},
        sel \in {Absent, {TRUE}}, sec \in {Absent, {{}}}}

Messages == {<<"x", "w">>, <<"j">>, <<"W">>}

\* --------------------------------------------------------- extensions
\* Where a card carries an extensions object.
Levels == {"character", "character_book", "entry"}

\* The one extension key this loader knows, and a key of another tool.
KnownKeys == {"theme_color"}

ExtensionKeys == KnownKeys \cup {"MyApp_mode"}

ExtensionValues == {"a", "b"}

\* A mapping is a set of key-value pairs with no key twice.
Mappings ==
    {m \in SUBSET (ExtensionKeys \X ExtensionValues) :
        \A p, q \in m : p[1] = q[1] => p = q}

\* What the three levels of a document may carry: a mapping each, or nothing.
ExtensionObjects == [Levels -> {Absent} \cup {{m} : m \in Mappings}]

NoExtensions == [level \in Levels |-> Absent]

\* The loader sorts the pairs it knows from those it only carries along; an
\* extensions object that is missing is an empty one.
ParseExtensions(raw) ==
    [known |-> {p \in Opt(raw, {}) : p[1] \in KnownKeys},
     other |-> {p \in Opt(raw, {}) : p[1] \notin KnownKeys}]

NoneLoaded == [level \in Levels |-> ParseExtensions(Absent)]

\* Variant of SerializeExtensions: only the pairs the loader knows are written.
SerializeExtensionsKnownOnly(parsed) == parsed.known

\* Writing a level back: the pairs the loader knows and those it carried along.
SerializeExtensions(parsed) == parsed.known \cup parsed.other

\* A card document: its two identifying fields and its extensions.
Document(spec, spec_version, exts) ==
    [spec |-> spec, spec_version |-> spec_version, extensions |-> exts]

\* --------------------------------------------------------- instructions
\* The {{original}} placeholder, one element per character, in short.
Placeholder == <<"{", "o", "}">>

\* No instruction field is being resolved.
NoInstruction ==
    [field |-> "system_prompt", text |-> <<>>, default |-> <<>>, resolved |-> Absent]

\* What a card may carry as an instruction text, and what the user's setting
\* or the built-in default may be.
PromptAlphabet == {"{", "o", "}", "a"}

CardTexts == UNION {[1..n -> PromptAlphabet] : n \in 0..MaxPrompt}

DefaultTexts == {<<>>, <<"d">>, <<"d", "e">>}

\* Variant of Substitute: the placeholder is taken out and nothing put in.
RECURSIVE SubstituteStrip(_, _)
SubstituteStrip(text, default) ==
    IF Len(text) < Len(Placeholder) THEN text
    ELSE IF SubSeq(text, 1, Len(Placeholder)) = Placeholder
         THEN SubstituteStrip(SubSeq(text, Len(Placeholder) + 1, Len(text)), default)
         ELSE <<Head(text)>> \o SubstituteStrip(Tail(text), default)

\* The text with the default put where the placeholder stands.
RECURSIVE Substitute(_, _)
Substitute(text, default) ==
    IF Len(text) < Len(Placeholder) THEN text
    ELSE IF SubSeq(text, 1, Len(Placeholder)) = Placeholder
         THEN default \o Substitute(SubSeq(text, Len(Placeholder) + 1, Len(text)), default)
         ELSE <<Head(text)>> \o Substitute(Tail(text), default)

\* Variant of ResolveInstruction: the card's text is used even when empty.
ResolveInstructionCardOnly(text, default) == Substitute(text, default)

\* An empty card text falls back to the default; any other replaces it.
ResolveInstruction(text, default) ==
    IF text = <<>> THEN default ELSE Substitute(text, default)

\* ------------------------------------------------------------- the state
VARIABLES
    document,       \* spec, spec_version and extensions of the card document
    live,           \* the character book of the document, as the editor has it
    book,           \* the character book of the card the session holds
    warnings,       \* what the loader reported without refusing the card
    extensions,     \* the extensions of the loaded card, level by level
    saved,          \* the extensions of the document written back, if any
    composer,       \* an instruction field, the default text and what they resolve to
    history,        \* the conversation messages, oldest first
    previous,       \* entries admitted in the turn before this one
    pc,             \* unloaded, rejected, or where the turn is: idle, matched,
                    \* resolved, allocated, assembled
    scanned,        \* the texts the matcher scanned last
    matches,        \* per entry, whether a primary and a secondary key matched
    activations,    \* per entry, how often the resolver activated it this turn
    activated,      \* entries that were candidates before the current pass
    candidates,     \* entries that are candidates in this turn
    kept,           \* entries admitted before the current pass
    admitted,       \* entries admitted under the budget in this turn
    passes,         \* recursive passes done in this turn
    before_block,   \* the text placed before the character definition
    after_block     \* the text placed after the character definition

vars == <<document, live, book, warnings, extensions, saved, composer, history, previous, pc, scanned, matches, activations, activated, candidates, kept, admitted, passes, before_block, after_block>>

\* What a turn leaves alone: the document and the card loaded from it.
card == <<document, live, book, warnings, extensions, saved, composer>>

MaxRecursivePasses == 1

\* Variant of TurnBook: the turn reads the document the editor is working on.
TurnBookLive == live

\* The card version a turn computes from: the one the session holds.
TurnBook == book

Entries == TurnBook.entries
Ids == 1..Len(TurnBook.entries)
\* Variant of Recursive: a book that does not say is scanned recursively.
RecursiveUnlessFalse == Opt(TurnBook.recursive_scanning, TRUE)

\* Whether inserted content is scanned in its turn; not unless the book says so.
Recursive == Opt(TurnBook.recursive_scanning, FALSE)

NoMatches == [i \in Ids |-> [primary |-> FALSE, secondary |-> FALSE]]

\* The session before a card is loaded holds a book without entries.
NoCard == CharacterBook(0, 0, Absent, <<>>)

\* Variant of ValidHeader: the spec identifier alone decides.
ValidHeaderSpecOnly(doc) == doc.spec = "chara_card_v2"

\* The two identifying fields of a V2 card.
ValidHeader(doc) == doc.spec = "chara_card_v2" /\ doc.spec_version = "2.0"

\* Variant of Warnings: a negative value is passed over in silence.
WarningsNone(b) == {}

\* Variant of Warnings: only the two numbers of the book are looked at.
WarningsNumbersOnly(b) ==
    {w \in {"token_budget", "scan_depth"} :
        \/ w = "token_budget" /\ b.token_budget < 0
        \/ w = "scan_depth" /\ b.scan_depth < 0}

\* Configuration the format does not forbid but that cannot take effect.
Warnings(b) ==
    {w \in {"token_budget", "scan_depth", "secondary_keys"} :
        \/ w = "token_budget" /\ b.token_budget < 0
        \/ w = "scan_depth" /\ b.scan_depth < 0
        \/ /\ w = "secondary_keys"
           /\ \E n \in 1..Len(b.entries) :
                  /\ Opt(b.entries[n].selective, FALSE)
                  /\ Opt(b.entries[n].secondary_keys, {}) = {}}

\* Variant of NewlyActivated: entries activated earlier are activated again.
NewlyActivatedAgain(entries, found, already) ==
    {i \in 1..Len(entries) : IsCandidate(entries[i], found[i])}

\* The entries the resolver activates in this pass.
NewlyActivated(entries, found, already) ==
    {i \in (1..Len(entries)) \ already : IsCandidate(entries[i], found[i])}

InitTurn ==
    /\ extensions = NoneLoaded
    /\ saved = Absent
    /\ history = <<>>
    /\ previous = {}
    /\ pc = "unloaded"
    /\ book = NoCard
    /\ warnings = {}
    /\ scanned = <<>>
    /\ matches = <<>>
    /\ activations = <<>>
    /\ activated = {}
    /\ candidates = {}
    /\ kept = {}
    /\ admitted = {}
    /\ passes = 0
    /\ before_block = <<>>
    /\ after_block = <<>>

\* A well-formed V2 card, not yet loaded.
Init ==
    /\ document = Document("chara_card_v2", "2.0", NoExtensions)
    /\ composer = NoInstruction
    /\ live \in Books
    /\ InitTurn

\* Card loader: the document becomes the card of the session, or is refused.
Load ==
    /\ pc = "unloaded"
    /\ IF ValidHeader(document)
       THEN /\ book' = live
            /\ warnings' = Warnings(live)
            /\ extensions' = [level \in Levels |-> ParseExtensions(document.extensions[level])]
            /\ matches' = [i \in 1..Len(live.entries) |->
                              [primary |-> FALSE, secondary |-> FALSE]]
            /\ activations' = [i \in 1..Len(live.entries) |-> 0]
            /\ pc' = "idle"
       ELSE /\ pc' = "rejected"
            /\ UNCHANGED <<book, warnings, extensions, matches, activations>>
    /\ UNCHANGED <<document, live, saved, composer, history, previous, scanned, activated,
                   candidates, kept, admitted, passes, before_block, after_block>>

\* Variant of Receive: the candidates of the turn before stay activated.
ReceiveSticky(m) ==
    /\ pc \in {"idle", "assembled"}
    /\ Len(history) < MaxHistory
    /\ history' = Append(history, m)
    /\ previous' = admitted
    /\ pc' = "idle"
    /\ scanned' = <<>>
    /\ matches' = NoMatches
    /\ activations' = [i \in Ids |-> 0]
    /\ activated' = candidates
    /\ candidates' = {}
    /\ kept' = {}
    /\ admitted' = {}
    /\ passes' = 0
    /\ before_block' = <<>>
    /\ after_block' = <<>>
    /\ UNCHANGED card

\* A message joins the conversation; the next turn starts from nothing.
Receive(m) ==
    /\ pc \in {"idle", "assembled"}
    /\ Len(history) < MaxHistory
    /\ history' = Append(history, m)
    /\ previous' = admitted
    /\ pc' = "idle"
    /\ scanned' = <<>>
    /\ matches' = NoMatches
    /\ activations' = [i \in Ids |-> 0]
    /\ activated' = {}
    /\ candidates' = {}
    /\ kept' = {}
    /\ admitted' = {}
    /\ passes' = 0
    /\ before_block' = <<>>
    /\ after_block' = <<>>
    /\ UNCHANGED card

\* Keyword matcher: the keys of every entry against the scan window.
Match ==
    /\ pc = "idle"
    /\ scanned' = ScanWindow(history, TurnBook.scan_depth)
    /\ matches' = [i \in Ids |-> MatchEntry(Entries[i], scanned')]
    /\ pc' = "matched"
    /\ UNCHANGED <<card, history, previous, activations, activated, candidates,
                   kept, admitted, passes, before_block, after_block>>

\* Activation resolver: an entry activated earlier in the turn stays as it is.
Resolve ==
    /\ pc = "matched"
    /\ candidates' = activated \cup NewlyActivated(Entries, matches, activated)
    /\ activations' = [i \in Ids |->
           IF i \in NewlyActivated(Entries, matches, activated)
           THEN activations[i] + 1
           ELSE activations[i]]
    /\ pc' = "resolved"
    /\ UNCHANGED <<card, history, previous, scanned, matches, activated, kept,
                   admitted, passes, before_block, after_block>>

\* Variant of Allocate: every pass allocates all candidates afresh.
AllocateAfresh ==
    /\ pc = "resolved"
    /\ \E order \in AllocationOrders(Entries, candidates) :
           admitted' = Range(Evict(Entries, order, TurnBook.token_budget))
    /\ pc' = "allocated"
    /\ UNCHANGED <<card, history, previous, scanned, matches, activations,
                   activated, candidates, kept, passes, before_block, after_block>>

\* Budget allocator: the candidates of this pass into the room that is left.
Allocate ==
    /\ pc = "resolved"
    /\ \E order \in AllocationOrders(Entries, candidates \ activated) :
           admitted' = kept \cup
               Range(Evict(Entries, order, Room(Entries, kept, TurnBook.token_budget)))
    /\ pc' = "allocated"
    /\ UNCHANGED <<card, history, previous, scanned, matches, activations,
                   activated, candidates, kept, passes, before_block, after_block>>

\* Variant of Rescan: the pass is made but not counted.
RescanUncounted ==
    /\ pc = "allocated"
    /\ Recursive
    /\ scanned' = ScanWindow(history, TurnBook.scan_depth) \o
                      [n \in 1..Cardinality(admitted) |->
                          Entries[PlacementOrder(Entries, admitted)[n]].content]
    /\ matches' = [i \in Ids |-> MatchEntry(Entries[i], scanned')]
    /\ activated' = candidates
    /\ kept' = admitted
    /\ pc' = "matched"
    /\ UNCHANGED <<card, history, previous, activations, candidates, admitted,
                   passes, before_block, after_block>>

\* Variant of Rescan: the contents of all candidates join the scanned text,
\* dropped ones included.
RescanCandidates ==
    /\ pc = "allocated"
    /\ Recursive
    /\ passes < MaxRecursivePasses
    /\ scanned' = ScanWindow(history, TurnBook.scan_depth) \o
                      [n \in 1..Cardinality(candidates) |->
                          Entries[PlacementOrder(Entries, candidates)[n]].content]
    /\ matches' = [i \in Ids |-> MatchEntry(Entries[i], scanned')]
    /\ activated' = candidates
    /\ kept' = admitted
    /\ passes' = passes + 1
    /\ pc' = "matched"
    /\ UNCHANGED <<card, history, previous, activations, candidates, admitted,
                   before_block, after_block>>

\* Recursive scanning: the inserted contents join the scanned text.
Rescan ==
    /\ pc = "allocated"
    /\ Recursive
    /\ passes < MaxRecursivePasses
    /\ scanned' = ScanWindow(history, TurnBook.scan_depth) \o
                      [n \in 1..Cardinality(admitted) |->
                          Entries[PlacementOrder(Entries, admitted)[n]].content]
    /\ matches' = [i \in Ids |-> MatchEntry(Entries[i], scanned')]
    /\ activated' = candidates
    /\ kept' = admitted
    /\ passes' = passes + 1
    /\ pc' = "matched"
    /\ UNCHANGED <<card, history, previous, activations, candidates, admitted,
                   before_block, after_block>>

\* Placement assembler: the two blocks handed to the prompt composer.
Assemble ==
    /\ pc = "allocated"
    /\ ~Recursive \/ passes >= MaxRecursivePasses
    /\ before_block' \in Blocks(Entries, admitted, "before_char")
    /\ after_block' \in Blocks(Entries, admitted, "after_char")
    /\ pc' = "assembled"
    /\ UNCHANGED <<card, history, previous, scanned, matches, activations,
                   activated, candidates, kept, admitted, passes>>

\* A step of the injection turn.
TurnStep == Match \/ Resolve \/ Allocate \/ Rescan \/ Assemble

Next ==
    \/ Load
    \/ \E m \in Messages : Receive(m)
    \/ Match
    \/ Resolve
    \/ Allocate
    \/ Rescan
    \/ Assemble

Spec == Init /\ [][Next]_vars

\* A well-formed V2 card whose book asks for recursive scanning.
InitRecursive ==
    /\ document = Document("chara_card_v2", "2.0", NoExtensions)
    /\ composer = NoInstruction
    /\ live \in {b \in Books : b.recursive_scanning = {TRUE}}
    /\ InitTurn

\* The engine runs a turn to its end once it has started it.
FairSpec == InitRecursive /\ [][Next]_vars /\ WF_vars(TurnStep)

\* --------------------------------------------- documents and their editor
\* Any document a front-end may be handed, well-formed or not.
InitAuthoring ==
    /\ document \in {Document(h.spec, h.spec_version, NoExtensions) : h \in Headers}
    /\ composer = NoInstruction
    /\ live \in AuthoredBooks
    /\ InitTurn

\* The editor lowers the token budget of the document.
EditBudget ==
    /\ live.token_budget > 0
    /\ live' = [live EXCEPT !.token_budget = 0]
    /\ UNCHANGED <<document, book, warnings, extensions, saved, composer, history, previous, pc, scanned,
                   matches, activations, activated, candidates, kept, admitted,
                   passes, before_block, after_block>>

\* The editor switches off the first entry of the document.
EditEntry ==
    /\ live.entries[1].enabled
    /\ live' = [live EXCEPT !.entries[1].enabled = FALSE]
    /\ UNCHANGED <<document, book, warnings, extensions, saved, composer, history, previous, pc, scanned,
                   matches, activations, activated, candidates, kept, admitted,
                   passes, before_block, after_block>>

NextAuthoring ==
    \/ Load
    \/ \E m \in Messages : Receive(m)
    \/ Match
    \/ Resolve
    \/ Allocate
    \/ Rescan
    \/ Assemble
    \/ EditBudget
    \/ EditEntry

AuthoringSpec == InitAuthoring /\ [][NextAuthoring]_vars

\* ------------------------------------------- a card loaded and written back
\* A well-formed document with any extensions at its three levels.
InitExchange ==
    /\ document \in {Document("chara_card_v2", "2.0", x) : x \in ExtensionObjects}
    /\ composer = NoInstruction
    /\ live = CharacterBook(1, 1, Absent, <<Almanac>>)
    /\ InitTurn

\* The loaded card is written back as a document.
Save ==
    /\ pc = "idle"
    /\ saved = Absent
    /\ saved' = {[level \in Levels |-> SerializeExtensions(extensions[level])]}
    /\ UNCHANGED <<document, live, book, warnings, extensions, composer, history,
                   previous, pc, scanned, matches, activations, activated,
                   candidates, kept, admitted, passes, before_block, after_block>>

NextExchange ==
    \/ Load
    \/ Save

ExchangeSpec == InitExchange /\ [][NextExchange]_vars

\* ------------------------------------------- the two instruction fields
\* A card with an instruction text, and the text that applies without it.
InitPrompt ==
    /\ document = Document("chara_card_v2", "2.0", NoExtensions)
    /\ composer \in [field : {"system_prompt", "post_history_instructions"},
                      text : CardTexts, default : DefaultTexts, resolved : {Absent}]
    /\ live = CharacterBook(1, 1, Absent, <<Almanac>>)
    /\ InitTurn

\* The system prompt of the turn: the card's, or the user's or built-in one.
ComposeSystemPrompt ==
    /\ composer.field = "system_prompt"
    /\ composer.resolved = Absent
    /\ composer' = [composer EXCEPT
           !.resolved = {ResolveInstruction(composer.text, composer.default)}]
    /\ UNCHANGED <<document, live, book, warnings, extensions, saved, history,
                   previous, pc, scanned, matches, activations, activated,
                   candidates, kept, admitted, passes, before_block, after_block>>

\* The post-history instruction of the turn: the card's, or the user's.
ComposePostHistory ==
    /\ composer.field = "post_history_instructions"
    /\ composer.resolved = Absent
    /\ composer' = [composer EXCEPT
           !.resolved = {ResolveInstruction(composer.text, composer.default)}]
    /\ UNCHANGED <<document, live, book, warnings, extensions, saved, history,
                   previous, pc, scanned, matches, activations, activated,
                   candidates, kept, admitted, passes, before_block, after_block>>

NextPrompt ==
    \/ ComposeSystemPrompt
    \/ ComposePostHistory

PromptSpec == InitPrompt /\ [][NextPrompt]_vars

\* ===================================================== checked properties
IsTrue(flag) == TRUE \in flag

Size(i) == Len(Entries[i].content)

Resolved == pc \in {"resolved", "allocated", "assembled"}

Allocated == pc \in {"allocated", "assembled"}

\* Some key of the list occurs in the text, under entry i's case rule.
KeyIn(keylist, i, text) == \E k \in keylist : KeyMatches(k, text, Entries[i].case_sensitive)

PrimaryHit(i) == \E n \in 1..Len(scanned) : KeyIn(Entries[i].keys, i, scanned[n])

SecondaryHit(i) ==
    /\ Entries[i].secondary_keys # Absent
    /\ \E n \in 1..Len(scanned) :
           KeyIn(CHOOSE ks \in Entries[i].secondary_keys : TRUE, i, scanned[n])

\* C1: an entry with enabled=false is never in the candidate set (nor
\* admitted), whatever its constant flag and whatever its keys match.
C1_DisabledNeverCandidate ==
    \A i \in Ids : ~Entries[i].enabled => i \notin candidates /\ i \notin admitted

C1_Witness ==
    /\ pc = "resolved"
    /\ \E i \in Ids :
           /\ ~Entries[i].enabled
           /\ IsTrue(Entries[i].constant)
           /\ PrimaryHit(i)
           /\ SecondaryHit(i)
           /\ i \notin candidates

\* C2: once the resolver has run, an enabled entry is a candidate exactly
\* when constant is true, or a primary key matched the scanned text and
\* (selective is not true, or a secondary key matched too).
C2_CandidateRule ==
    Resolved =>
        \A i \in Ids : Entries[i].enabled =>
            (i \in candidates <=>
                \/ IsTrue(Entries[i].constant)
                \/ /\ PrimaryHit(i)
                   /\ (~IsTrue(Entries[i].selective) \/ SecondaryHit(i)))

C2_Witness ==
    /\ pc = "resolved"
    /\ \E i, j \in Ids :
           /\ Entries[i].enabled
           /\ ~IsTrue(Entries[i].constant)
           /\ IsTrue(Entries[i].selective)
           /\ PrimaryHit(i)
           /\ SecondaryHit(i)
           /\ i \in candidates
           /\ IsTrue(Entries[j].constant)
           /\ ~PrimaryHit(j)
           /\ j \in candidates

\* C3: once the resolver has run, an entry with constant=true and
\* enabled=true is a candidate, for every history and every scan_depth.
C3_ConstantAlwaysCandidate ==
    Resolved =>
        \A i \in Ids :
            Entries[i].enabled /\ IsTrue(Entries[i].constant) => i \in candidates

C3_Witness ==
    /\ pc = "resolved"
    /\ history = <<>>
    /\ book.scan_depth = 0
    /\ \E i \in Ids :
           /\ IsTrue(Entries[i].constant)
           /\ ~PrimaryHit(i)
           /\ i \in candidates

\* Sum of the sizes of a set of entries.
RECURSIVE Total(_)
Total(S) ==
    IF S = {} THEN 0
    ELSE LET i == CHOOSE x \in S : TRUE IN Size(i) + Total(S \ {i})

\* C4: the sizes of the admitted entries never sum to more than
\* token_budget, after the allocator and after a recursive pass alike.
C4_WithinBudget == Total(admitted) <= book.token_budget

C4_Witness ==
    /\ pc = "assembled"
    /\ passes = 1
    /\ kept # {}
    /\ admitted \ kept # {}
    /\ \E i \in candidates \ admitted : IsTrue(Entries[i].constant)
    /\ Total(admitted) = book.token_budget

\* The order the claims give: higher priority first, an absent priority
\* highest, and between equal priorities the lower insertion_order first.
Precedes(i, j) ==
    LET a == Entries[i]
        b == Entries[j]
    IN  \/ a.priority = Absent /\ b.priority # Absent
        \/ /\ a.priority # Absent
           /\ b.priority # Absent
           /\ (CHOOSE v \in a.priority : TRUE) > (CHOOSE v \in b.priority : TRUE)
        \/ /\ a.priority = b.priority
           /\ a.insertion_order < b.insertion_order

RECURSIVE PrefixSize(_, _)
PrefixSize(s, k) == IF k = 0 THEN 0 ELSE Size(s[k]) + PrefixSize(s, k - 1)

\* The candidates the allocator was given in the current pass, what it
\* admitted of them, and the budget that was left for them.
PassCandidates == candidates \ activated
PassAdmitted == admitted \ kept
PassBudget == book.token_budget - Total(kept)

\* C5: a run of the allocator admits the longest prefix of its candidates,
\* taken by descending priority (absent highest) and then ascending
\* insertion_order, whose cumulative size is within the budget; nothing
\* after the first candidate that does not fit is admitted.
C5_GreedyPrefix ==
    Allocated =>
        /\ kept \subseteq admitted
        /\ \E s \in Perms(PassCandidates) :
               /\ \A m, n \in 1..Len(s) : m < n => ~Precedes(s[n], s[m])
               /\ \E k \in 0..Len(s) :
                      /\ PassAdmitted = {s[n] : n \in 1..k}
                      /\ PrefixSize(s, k) <= PassBudget
                      /\ k < Len(s) => PrefixSize(s, k + 1) > PassBudget

C5_Witness ==
    /\ pc = "allocated"
    /\ passes = 0
    /\ \E i, j, l \in candidates :
           /\ Precedes(i, j)
           /\ Precedes(j, l)
           /\ i \in admitted
           /\ j \notin admitted
           /\ l \notin admitted
           /\ Size(j) <= book.token_budget
           /\ Total(admitted) + Size(l) <= book.token_budget

\* i has an explicit priority value above j's explicit value.
HigherValue(i, j) ==
    /\ Entries[i].priority # Absent
    /\ Entries[j].priority # Absent
    /\ (CHOOSE v \in Entries[i].priority : TRUE) > (CHOOSE v \in Entries[j].priority : TRUE)

SamePass(i, j) == (i \in activated) <=> (j \in activated)

\* The candidates of i's pass that the allocator takes before i whatever
\* order it uses, and those it may take before i.
SurelyBefore(i) == {c \in candidates : SamePass(c, i) /\ Precedes(c, i)}
PossiblyBefore(i) == {c \in candidates \ {i} : SamePass(c, i) /\ ~Precedes(i, c)}
BudgetOfPass(i) == IF i \in activated THEN book.token_budget ELSE PassBudget

\* C6 as stated: of two candidates that cannot both fit within
\* token_budget, the one with the higher priority value is admitted and the
\* one with the lower value is dropped, whatever their sizes.
C6_HigherKeptLowerDropped ==
    Allocated =>
        \A i, j \in candidates :
            HigherValue(i, j) /\ Size(i) + Size(j) > book.token_budget =>
                i \in admitted /\ j \notin admitted

\* C6 amended: of two candidates of the same allocator pass that cannot
\* both fit within token_budget, the one with the lower priority value is
\* dropped; the one with the higher value is admitted only if it fits
\* together with the candidates ordered before it, and is admitted whenever
\* it fits together with every candidate that may be ordered before it.
C6_LowerDroppedHigherIfFits ==
    Allocated =>
        \A i, j \in candidates :
            (SamePass(i, j) /\ HigherValue(i, j)
                /\ Size(i) + Size(j) > book.token_budget) =>
                /\ j \notin admitted
                /\ i \in admitted =>
                       Total(SurelyBefore(i)) + Size(i) <= BudgetOfPass(i)
                /\ Total(PossiblyBefore(i)) + Size(i) <= BudgetOfPass(i) =>
                       i \in admitted

C6_Witness ==
    /\ pc = "allocated"
    /\ \E i, j \in candidates :
           /\ HigherValue(i, j)
           /\ Size(i) > book.token_budget
           /\ Size(j) <= book.token_budget
           /\ i \notin admitted
           /\ j \notin admitted
    /\ \E i, j \in candidates :
           /\ HigherValue(i, j)
           /\ Size(i) + Size(j) > book.token_budget
           /\ i \in admitted
           /\ j \notin admitted

\* The whole contents of the entries of s, one after the other, with the
\* separator between two of them.
RECURSIVE WholeContents(_)
WholeContents(s) ==
    IF s = <<>> THEN <<>>
    ELSE IF Len(s) = 1 THEN Entries[s[1]].content
    ELSE Entries[s[1]].content \o <<"\n">> \o WholeContents(Tail(s))

MadeOfWholeContents(block) ==
    \E S \in SUBSET admitted : \E s \in Perms(S) : block = WholeContents(s)

\* C7: a candidate whose content alone is larger than token_budget is not
\* admitted; each block is whole contents of admitted entries and never a
\* part of one; when that candidate is the only one, both blocks are empty.
C7_OversizedDroppedWhole ==
    /\ \A i \in candidates : Size(i) > book.token_budget => i \notin admitted
    /\ MadeOfWholeContents(before_block)
    /\ MadeOfWholeContents(after_block)
    /\ pc = "assembled" =>
           \A i \in Ids : (candidates = {i} /\ Size(i) > book.token_budget) =>
               before_block = <<>> /\ after_block = <<>>

C7_Witness ==
    /\ pc = "assembled"
    /\ \E i \in Ids : candidates = {i} /\ Size(i) > book.token_budget
    /\ admitted = {}
    /\ before_block = <<>>
    /\ after_block = <<>>

\* C8: an entry with selective=true and empty or absent secondary_keys is a
\* candidate only when constant=true, also when its primary keys occur.
C8_SelectiveWithoutSecondary ==
    \A i \in Ids :
        (/\ IsTrue(Entries[i].selective)
         /\ Entries[i].secondary_keys \in {Absent, {{}}}
         /\ ~IsTrue(Entries[i].constant)) => i \notin candidates

C8_Witness ==
    /\ pc = "resolved"
    /\ \E i \in Ids :
           /\ Entries[i].enabled
           /\ IsTrue(Entries[i].selective)
           /\ Entries[i].secondary_keys = {{}}
           /\ ~IsTrue(Entries[i].constant)
           /\ PrimaryHit(i)
           /\ i \notin candidates

\* The messages inside and outside the scan window, by position.
InWindow(n) == n \in 1..Len(history) /\ n > Len(history) - book.scan_depth
Older(n) == n \in 1..Len(history) /\ n <= Len(history) - book.scan_depth

KeyInWindow(i) == \E n \in 1..Len(history) : InWindow(n) /\ KeyIn(Entries[i].keys, i, history[n])
KeyInOlder(i) == \E n \in 1..Len(history) : Older(n) /\ KeyIn(Entries[i].keys, i, history[n])

\* A key of i occurs in the content of an entry inserted before the
\* recursive pass.
KeyInInserted(i) == \E c \in kept : KeyIn(Entries[i].keys, i, Entries[c].content)

\* C9: only the last scan_depth messages are scanned.  Once the resolver has
\* run, a non-constant entry none of whose keys occurs in those messages (nor
\* in inserted content) is not a candidate, wherever else in the history its
\* keys occur; an enabled, non-selective one with a key in them is.
C9_ScanWindow ==
    Resolved =>
        \A i \in Ids : ~IsTrue(Entries[i].constant) =>
            /\ (~KeyInWindow(i) /\ ~KeyInInserted(i)) => i \notin candidates
            /\ (/\ KeyInWindow(i)
                /\ Entries[i].enabled
                /\ ~IsTrue(Entries[i].selective)) => i \in candidates

C9_Witness ==
    /\ pc = "resolved"
    /\ book.scan_depth = 1
    /\ Len(history) = 2
    /\ \E i, j \in Ids :
           /\ Entries[i].enabled /\ ~IsTrue(Entries[i].constant)
           /\ KeyInOlder(i) /\ ~KeyInWindow(i)
           /\ i \notin candidates
           /\ Entries[j].enabled /\ ~IsTrue(Entries[j].constant)
           /\ KeyInWindow(j) /\ ~KeyInOlder(j)
           /\ j \in candidates

\* C10 as stated: with scan_depth 0, for every history and book setting,
\* only constant entries are candidates.
C10_OnlyConstantAtDepthZero ==
    (Resolved /\ book.scan_depth = 0) =>
        \A i \in candidates : IsTrue(Entries[i].constant)

\* C10 amended: with scan_depth 0 no message is scanned, so an entry that is
\* not constant is a candidate only when recursive_scanning is true and one
\* of its keys occurs in the content of an entry inserted in the first
\* pass; with recursive_scanning false or absent only constant entries are
\* candidates.
C10_OnlyConstantOrRecursive ==
    (Resolved /\ book.scan_depth = 0) =>
        /\ passes = 0 => scanned = <<>>
        /\ \A i \in candidates :
               \/ IsTrue(Entries[i].constant)
               \/ /\ IsTrue(book.recursive_scanning)
                  /\ passes = 1
                  /\ i \notin activated
                  /\ KeyInInserted(i)

C10_Witness ==
    /\ pc = "assembled"
    /\ book.scan_depth = 0
    /\ ~IsTrue(book.recursive_scanning)
    /\ \E i \in Ids, n \in 1..Len(history) :
           /\ Entries[i].enabled
           /\ ~IsTrue(Entries[i].constant)
           /\ ~IsTrue(Entries[i].selective)
           /\ KeyIn(Entries[i].keys, i, history[n])
           /\ i \notin candidates

\* ---------------------------------------------------------------- C11
\* Two characters are the same letter, whatever their case.
SameLetter(a, b) == a = b \/ {a, b} = {"w", "W"} \/ {a, b} = {"j", "J"}

\* The key stands in the text character for character.
OccursExactly(key, text) ==
    \E at \in 0..(Len(text) - Len(key)) :
        \A p \in 1..Len(key) : text[at + p] = key[p]

\* The key stands in the text up to the case of its letters.
OccursAnyCase(key, text) ==
    \E at \in 0..(Len(text) - Len(key)) :
        \A p \in 1..Len(key) : SameLetter(text[at + p], key[p])

\* C11: an entry whose case_sensitive is true is matched only by an
\* exact-case occurrence of one of its keys in a scanned text; an entry whose
\* case_sensitive is false or absent is matched by an occurrence in any case.
C11_CaseSensitiveMatching ==
    \A i \in Ids :
        matches[i].primary <=>
            \E k \in Entries[i].keys : \E n \in 1..Len(scanned) :
                IF IsTrue(Entries[i].case_sensitive)
                THEN OccursExactly(k, scanned[n])
                ELSE OccursAnyCase(k, scanned[n])

\* A case-sensitive key "W" is scanned against a text holding only "w" and
\* is not matched.
C11_Witness ==
    /\ pc = "matched"
    /\ \E i \in Ids :
           /\ IsTrue(Entries[i].case_sensitive)
           /\ Entries[i].keys = {<<"W">>}
           /\ \E n \in 1..Len(scanned) : OccursAnyCase(<<"W">>, scanned[n])
           /\ ~matches[i].primary

\* ---------------------------------------------------------------- C12
\* Some key of entry j stands in the content of entry i.
Triggers(i, j) == \E k \in Entries[j].keys : OccursAnyCase(k, Entries[i].content)

\* C12: with recursive_scanning true a turn that has started always reaches
\* its end, the blocks assembled, also when entries trigger one another in a
\* cycle; a turn makes at most one recursive pass after the first.
C12_TurnTerminates ==
    /\ [](passes <= 1)
    /\ (pc = "matched" /\ Recursive) ~> (pc = "assembled")

\* A turn has ended after its recursive pass with two entries admitted whose
\* contents hold each other's keys, the second found in the content of the first.
C12_Witness ==
    /\ pc = "assembled"
    /\ Recursive
    /\ passes = 1
    /\ \E i \in kept : \E j \in admitted \ kept : Triggers(i, j) /\ Triggers(j, i)

\* ---------------------------------------------------------------- C13
\* The contents a block is made of, cut at the separator.
RECURSIVE Split(_)
Split(text) ==
    IF \A n \in 1..Len(text) : <<text[n]>> # Separator THEN <<text>>
    ELSE LET cut == CHOOSE n \in 1..Len(text) :
                 /\ <<text[n]>> = Separator
                 /\ \A m \in 1..(n - 1) : <<text[m]>> # Separator
         IN <<SubSeq(text, 1, cut - 1)>> \o Split(SubSeq(text, cut + 1, Len(text)))

Segments(block) == IF block = <<>> THEN <<>> ELSE Split(block)

\* How often a content stands in the two blocks together.
Occurrences(content) ==
    Cardinality({n \in 1..Len(Segments(before_block)) : Segments(before_block)[n] = content})
    + Cardinality({n \in 1..Len(Segments(after_block)) : Segments(after_block)[n] = content})

\* C13: within one turn no entry is activated more than once, an entry
\* activated in the first pass is not activated again by the recursive pass,
\* and no entry contributes its content to before_block and after_block
\* together more than once.
C13_ActivatedOnce ==
    /\ \A i \in Ids : activations[i] <= 1
    /\ Resolved => \A i \in Ids : i \in candidates <=> activations[i] = 1
    /\ pc = "assembled" =>
           \A i \in Ids :
               Occurrences(Entries[i].content) <=
                   Cardinality({j \in admitted : Entries[j].content = Entries[i].content})

\* A turn has ended after a recursive pass in which an entry admitted in the
\* first pass was matched again; it was activated once and its content stands
\* once in the blocks.
C13_Witness ==
    /\ pc = "assembled"
    /\ passes = 1
    /\ \E i \in kept :
           /\ ~IsTrue(Entries[i].constant)
           /\ matches[i].primary
           /\ activations[i] = 1
           /\ Occurrences(Entries[i].content) = 1

\* ---------------------------------------------------------------- C14
\* The admitted entries that ask to stand before the character definition,
\* and those that ask to stand after it or do not say.
PlacedBefore == {i \in admitted : Entries[i].position = {"before_char"}}

PlacedAfter == {i \in admitted : Entries[i].position \in {Absent, {"after_char"}}}

\* The block is made of the contents of the entries of S, each once.
HoldsExactly(block, S) ==
    /\ Len(Segments(block)) = Cardinality(S)
    /\ \A i \in S :
           Cardinality({n \in 1..Len(Segments(block)) :
                            Segments(block)[n] = Entries[i].content})
               = Cardinality({j \in S : Entries[j].content = Entries[i].content})

\* C14: the assembler splits the admitted entries by position: before_block
\* holds exactly the contents of the entries whose position is before_char,
\* after_block exactly those whose position is after_char or absent; the
\* insertion_order of an entry has no part in the choice of its block.
C14_PartitionByPosition ==
    pc = "assembled" =>
        /\ HoldsExactly(before_block, PlacedBefore)
        /\ HoldsExactly(after_block, PlacedAfter)

\* An entry placed after the definition has a lower insertion_order than one
\* placed before it and one without a position; each stands in its own block.
C14_Witness ==
    /\ pc = "assembled"
    /\ \E i, j, k \in admitted :
           /\ Entries[i].position = {"after_char"}
           /\ Entries[j].position = {"before_char"}
           /\ Entries[k].position = Absent
           /\ Entries[i].insertion_order < Entries[j].insertion_order
           /\ before_block = Entries[j].content
           /\ Occurrences(Entries[i].content) = 1
           /\ Occurrences(Entries[k].content) = 1

\* ---------------------------------------------------------------- C15
\* The sequence lists its entries by ascending insertion_order.
Ascending(s) ==
    \A m, n \in 1..Len(s) :
        m < n => Entries[s[m]].insertion_order <= Entries[s[n]].insertion_order

\* Entries of the sequence with the same insertion_order keep the order they
\* have in book.entries.
TiesAsAuthored(s) ==
    \A m, n \in 1..Len(s) :
        (m < n /\ Entries[s[m]].insertion_order = Entries[s[n]].insertion_order)
            => s[m] < s[n]

\* C15 as stated: within each block the contents stand in ascending
\* insertion_order, and entries with the same insertion_order stand in the
\* order of book.entries.
C15_AscendingStableTies ==
    pc = "assembled" =>
        /\ \E s \in Perms(PlacedBefore) :
               Ascending(s) /\ TiesAsAuthored(s) /\ before_block = WholeContents(s)
        /\ \E s \in Perms(PlacedAfter) :
               Ascending(s) /\ TiesAsAuthored(s) /\ after_block = WholeContents(s)

\* C15, amended: within each block the contents stand in ascending
\* insertion_order; the order of entries with the same insertion_order is
\* not fixed.
C15_AscendingInsertionOrder ==
    pc = "assembled" =>
        /\ \E s \in Perms(PlacedBefore) : Ascending(s) /\ before_block = WholeContents(s)
        /\ \E s \in Perms(PlacedAfter) : Ascending(s) /\ after_block = WholeContents(s)

\* Three entries share after_block: the one authored last has the lowest
\* insertion_order and stands first, the two others have the same
\* insertion_order and stand against their authored order.
C15_Witness ==
    /\ pc = "assembled"
    /\ \E i, j, k \in PlacedAfter :
           /\ i < j /\ j < k
           /\ Entries[i].insertion_order = Entries[j].insertion_order
           /\ Entries[k].insertion_order < Entries[i].insertion_order
           /\ Entries[i].content # Entries[j].content
           /\ after_block = WholeContents(<<k, j, i>>)

\* ---------------------------------------------------------------- C16
\* The admitted sets the allocator may answer with for the candidates of this
\* pass: one for each order in which candidates that are equal in priority
\* and in insertion_order can reach it.
AllocatorAnswers ==
    {Range(Evict(Entries, order, Room(Entries, kept, book.token_budget))) :
        order \in AllocationOrders(Entries, candidates \ activated)}

\* C16: for one set of candidates and one token_budget the allocator answers
\* with the same admitted set every time it is run, also when two candidates
\* are equal in priority and in insertion_order, and whatever the order in
\* which the candidates reach it.
C16_AllocatorDeterministic ==
    pc = "resolved" => \A A, B \in AllocatorAnswers : A = B

\* ---------------------------------------------------------------- C17
\* C17 as stated: nothing of a turn is carried into the next one; an entry
\* admitted in the turn before, not constant, none of whose keys occurs in
\* the scan window of this turn, is not a candidate of this turn.
C17_OutsideWindowNeverCandidate ==
    /\ pc = "idle" =>
           /\ candidates = {} /\ activated = {}
           /\ admitted = {} /\ kept = {}
           /\ before_block = <<>> /\ after_block = <<>>
    /\ Resolved =>
           \A i \in previous :
               (~IsTrue(Entries[i].constant) /\ ~KeyInWindow(i)) => i \notin candidates

\* C17, amended: nothing of a turn is carried into the next one; an entry
\* admitted in the turn before, not constant, none of whose keys occurs in
\* the scan window of this turn nor in content inserted in this turn, is
\* neither a candidate nor admitted in this turn.
C17_NoCarryOver ==
    /\ pc = "idle" =>
           /\ candidates = {} /\ activated = {}
           /\ admitted = {} /\ kept = {}
           /\ before_block = <<>> /\ after_block = <<>>
    /\ Resolved =>
           \A i \in previous :
               (/\ ~IsTrue(Entries[i].constant)
                /\ ~KeyInWindow(i)
                /\ ~KeyInInserted(i)) => i \notin candidates /\ i \notin admitted

\* An entry was admitted in the turn before on a message that has since left
\* the scan window; this turn has candidates, and the entry is not one.
C17_Witness ==
    /\ pc = "assembled"
    /\ candidates # {}
    /\ \E i \in previous :
           /\ ~IsTrue(Entries[i].constant)
           /\ KeyInOlder(i)
           /\ ~KeyInWindow(i)
           /\ i \notin candidates

\* ---------------------------------------------------------------- C18
\* A card is loaded and a session is running.
InSession == pc \notin {"unloaded", "rejected"}

\* C18: while an editor changes the document, field by field, every step of
\* every turn is computed from the card as the session loaded it: the
\* matches, the candidates, the admitted set and the blocks are what matcher,
\* resolver, allocator and assembler give on that one version of the card,
\* never on the document as edited so far.
C18_TurnOnSessionCard ==
    InSession =>
        /\ matches = [i \in 1..Len(book.entries) |-> MatchEntry(book.entries[i], scanned)]
        /\ (pc # "idle" /\ passes = 0) => scanned = ScanWindow(history, book.scan_depth)
        /\ Resolved =>
               candidates = activated \cup NewlyActivated(book.entries, matches, activated)
        /\ Allocated =>
               \E order \in AllocationOrders(book.entries, candidates \ activated) :
                   admitted = kept \cup
                       Range(Evict(book.entries, order,
                                   Room(book.entries, kept, book.token_budget)))
        /\ pc = "assembled" =>
               /\ before_block \in Blocks(book.entries, admitted, "before_char")
               /\ after_block \in Blocks(book.entries, admitted, "after_char")

\* The editor has set the token budget of the document to 0 and switched its
\* first entry off; the turn of the session that loaded the card before has
\* ended with that entry admitted under the budget the card had then.
C18_Witness ==
    /\ pc = "assembled"
    /\ live.token_budget = 0
    /\ book.token_budget > 0
    /\ ~live.entries[1].enabled
    /\ book.entries[1].enabled
    /\ 1 \in admitted
    /\ after_block # <<>>

\* ---------------------------------------------------------------- C19
\* C19: the loader accepts a document only when its spec is exactly
\* "chara_card_v2" and its spec_version exactly "2.0"; any other document is
\* rejected, no card is produced from it and no session runs on it.
C19_LoaderChecksHeader ==
    pc # "unloaded" =>
        IF document.spec = "chara_card_v2" /\ document.spec_version = "2.0"
        THEN InSession
        ELSE pc = "rejected" /\ book = NoCard /\ history = <<>>

\* A document with the right spec and another spec_version has been rejected.
C19_Witness ==
    /\ pc = "rejected"
    /\ document.spec = "chara_card_v2"
    /\ document.spec_version = "1.0"
    /\ book = NoCard

SelectiveWithoutKeys(i) ==
    /\ IsTrue(book.entries[i].selective)
    /\ book.entries[i].secondary_keys \in {Absent, {{}}}

\* C21: a well-formed document with a negative scan_depth or token_budget, or
\* with an entry that is selective and has no secondary keys, is loaded, and
\* the loader reports a warning; every turn on such a card goes on to its end,
\* each step being possible where the one before left off, and the entry
\* without secondary keys stays out of the candidates.
C21_MisconfiguredLoadsAndRuns ==
    /\ (/\ pc # "unloaded"
        /\ document.spec = "chara_card_v2"
        /\ document.spec_version = "2.0") => InSession
    /\ InSession =>
           /\ "secondary_keys" \in warnings <=>
                  \E i \in 1..Len(book.entries) : SelectiveWithoutKeys(i)
           /\ (book.token_budget < 0 \/ book.scan_depth < 0) => warnings # {}
           /\ pc \in {"idle", "matched", "resolved", "allocated"} => ENABLED TurnStep
           /\ \A i \in 1..Len(book.entries) :
                  (SelectiveWithoutKeys(i) /\ ~IsTrue(book.entries[i].constant))
                      => i \notin candidates

\* A card with a negative token_budget and a selective entry without
\* secondary keys has been loaded with both warnings; a turn in which the
\* primary key of that entry was matched has ended with empty blocks.
C21_Witness ==
    /\ pc = "assembled"
    /\ book.token_budget < 0
    /\ {"token_budget", "secondary_keys"} \subseteq warnings
    /\ \E i \in Ids :
           /\ SelectiveWithoutKeys(i)
           /\ matches[i].primary
           /\ i \notin candidates
    /\ candidates # {}
    /\ before_block = <<>> /\ after_block = <<>>

\* ---------------------------------------------------------------- C22
\* The pairs a level of the document carries; none when the object is missing.
Carried(level) ==
    IF document.extensions[level] = Absent THEN {}
    ELSE CHOOSE m \in document.extensions[level] : TRUE

\* C22: a document whose extensions object is missing at some level is
\* loaded all the same, with an empty mapping at that level; and when the
\* loaded card is written back, every level of the written document carries
\* exactly the keys and values the level carried before, those the loader
\* does not know included.
C22_ExtensionsRoundTrip ==
    /\ pc # "unloaded" =>
           /\ InSession
           /\ \A level \in Levels :
                  document.extensions[level] = Absent =>
                      extensions[level].known = {} /\ extensions[level].other = {}
    /\ saved # Absent =>
           \A level \in Levels : \A w \in saved :
               /\ \A p \in Carried(level) : p \in w[level]
               /\ \A p \in w[level] : p \in Carried(level)

\* A card has been written back whose entry carried a key of another tool,
\* whose character book carried the key the loader knows, and whose character
\* level had no extensions object; the written document has both keys with
\* their values and an empty mapping at the character level.
C22_Witness ==
    /\ saved # Absent
    /\ document.extensions["character"] = Absent
    /\ document.extensions["character_book"] = {{<<"theme_color", "a">>}}
    /\ document.extensions["entry"] = {{<<"MyApp_mode", "b">>, <<"theme_color", "b">>}}
    /\ \A w \in saved :
           /\ w["character"] = {}
           /\ <<"theme_color", "a">> \in w["character_book"]
           /\ <<"MyApp_mode", "b">> \in w["entry"]

\* ---------------------------------------------------------------- C23
\* The placeholder stands in the text at the given offset.
PlaceholderAt(text, at) ==
    /\ at + 3 <= Len(text)
    /\ text[at + 1] = "{" /\ text[at + 2] = "o" /\ text[at + 3] = "}"

HasPlaceholder(text) == \E at \in 0..Len(text) : PlaceholderAt(text, at)

\* The resolved text is the card's text with the default in the place of the
\* placeholder that stands at the offset.
DefaultInPlace(resolved, text, default, at) ==
    /\ Len(resolved) = Len(text) - 3 + Len(default)
    /\ \A n \in 1..at : resolved[n] = text[n]
    /\ \A n \in 1..Len(default) : resolved[at + n] = default[n]
    /\ \A n \in (at + 4)..Len(text) : resolved[n - 3 + Len(default)] = text[n]

\* C23: a non-empty system_prompt or post_history_instructions resolves to
\* the card's text with the default text in the place of the {{original}}
\* placeholder; a card text that is the placeholder alone resolves to the
\* default text itself, and a card text without the placeholder resolves to
\* itself, the default text left out.
C23_PlaceholderSubstituted ==
    \A r \in composer.resolved :
        composer.text # <<>> =>
            /\ \A at \in 0..Len(composer.text) :
                   PlaceholderAt(composer.text, at) =>
                       DefaultInPlace(r, composer.text, composer.default, at)
            /\ composer.text = <<"{", "o", "}">> => r = composer.default
            /\ ~HasPlaceholder(composer.text) => r = composer.text

\* A card text with a character before the placeholder has been resolved
\* against a default of two characters: the character, then the default.
C23_Witness ==
    /\ composer.text = <<"a", "{", "o", "}">>
    /\ composer.default = <<"d", "e">>
    /\ composer.resolved = {<<"a", "d", "e">>}

\* ---------------------------------------------------------------- C24
\* C24: an empty system_prompt resolves to the user's or built-in default
\* text; a non-empty one takes the place of the default, which then appears
\* in the resolved text only where the card asks for it with the placeholder;
\* the same holds for post_history_instructions.
C24_EmptyFallsBackNonEmptyReplaces ==
    \A r \in composer.resolved :
        /\ composer.text = <<>> => r = composer.default
        /\ (composer.text # <<>> /\ ~HasPlaceholder(composer.text)) =>
               r = composer.text /\ r # composer.default

\* A card without post_history_instructions has been resolved to the user's
\* post-history setting.
C24_Witness ==
    /\ composer.field = "post_history_instructions"
    /\ composer.text = <<>>
    /\ composer.default = <<"d", "e">>
    /\ composer.resolved = {<<"d", "e">>}

\* ---------------------------------------------------------------- C25
\* The entry with a content that holds no key.
Blanked(e) == [e EXCEPT !.content = <<>>]

\* C25: when recursive_scanning is false or absent no recursive pass is made
\* and only messages of the conversation are scanned; the candidates are
\* those the same card would have with every content blanked, each of them
\* constant or with a key in the scan window, whatever the inserted contents
\* hold.
C25_MessagesOnlyWithoutRecursion ==
    ~IsTrue(book.recursive_scanning) =>
        /\ passes = 0
        /\ \A n \in 1..Len(scanned) : \E m \in 1..Len(history) :
               InWindow(m) /\ scanned[n] = history[m]
        /\ Resolved =>
               /\ \A i \in candidates : IsTrue(Entries[i].constant) \/ KeyInWindow(i)
               /\ candidates =
                      {i \in Ids :
                          IsCandidate(Blanked(Entries[i]),
                              MatchEntry(Blanked(Entries[i]),
                                         ScanWindow(history, book.scan_depth)))}

\* In a book without recursive scanning an admitted entry holds in its content
\* a key of an enabled entry that is not a candidate.
C25_Witness ==
    /\ pc = "assembled"
    /\ ~IsTrue(book.recursive_scanning)
    /\ \E i \in admitted : \E j \in Ids \ candidates :
           /\ Entries[j].enabled
           /\ ~IsTrue(Entries[j].selective)
           /\ Triggers(i, j)

\* ---------------------------------------------------------------- C26
\* C26: within a turn the admitted set only grows: whatever step the engine
\* takes while the history stays as it is, every entry admitted before the
\* step is admitted after it, also when the recursive pass brings a candidate
\* of higher priority that no longer fits.
C26_AdmittedOnlyGrows ==
    [][history' = history => admitted \subseteq admitted']_vars

\* After the recursive pass an entry admitted in the first pass is still
\* admitted, and a candidate of the recursive pass with a higher priority,
\* small enough for the budget alone, is not.
C26_Witness ==
    /\ pc = "assembled"
    /\ passes = 1
    /\ \E i \in kept : \E j \in candidates \ activated :
           /\ HigherValue(j, i)
           /\ Size(j) <= book.token_budget
           /\ i \in admitted
           /\ j \notin admitted

\* ---------------------------------------------------------------- C27
\* Some entry of the set has a priority of its own.
SomeExplicit(S) == \E i \in S : Entries[i].priority # Absent

\* The entries of the set that have no priority.
WithoutPriority(S) == {c \in S : Entries[c].priority = Absent}

\* C27 as stated: when a candidate with a priority of its own is admitted in
\* a turn, every candidate of the turn without a priority is admitted too.
C27_AbsentPriorityAlwaysKept ==
    Allocated => (SomeExplicit(admitted) => WithoutPriority(candidates) \subseteq admitted)

\* C27, amended: when a pass of the allocator admits a candidate with a
\* priority of its own, it admits every candidate of that pass without a
\* priority; this holds for the first pass and for the recursive pass, each
\* with its own candidates.
C27_AbsentPriorityKeptInPass ==
    Allocated =>
        /\ SomeExplicit(PassAdmitted) => WithoutPriority(PassCandidates) \subseteq admitted
        /\ passes = 1 => (SomeExplicit(kept) => WithoutPriority(activated) \subseteq kept)

\* Under budget pressure a pass has admitted its candidate without priority
\* and one with a priority, and dropped another.
C27_Witness ==
    /\ pc = "allocated"
    /\ SomeExplicit(PassAdmitted)
    /\ WithoutPriority(PassCandidates) # {}
    /\ WithoutPriority(PassCandidates) \subseteq admitted
    /\ PassCandidates \ admitted # {}

\* ---------------------------------------------------------------- C28
\* The room the allocator has in the pass about to run.
PassRoom == Room(Entries, kept, book.token_budget)

\* What the secondary_keys of an entry may be: none, or a key that some
\* messages hold and others do not.
SecondaryAlternatives == {Absent, {{<<"j">>}}}

\* The entries of a second card that differs from the session's card only in
\* the secondary_keys of the entries that are not selective.
Twin(alt) ==
    [i \in Ids |->
        IF IsTrue(Entries[i].selective) THEN Entries[i]
        ELSE [Entries[i] EXCEPT !.secondary_keys = alt]]

\* C28: the secondary_keys of an entry that is not selective have no effect:
\* at every point of every turn the resolver activates the same entries, the
\* allocator has the same answers and the assembler the same blocks for the
\* session's card and for any card that differs from it only in the
\* secondary_keys of its non-selective entries.
C28_SecondaryKeysIgnored ==
    \A alt \in SecondaryAlternatives :
        LET twin == Twin(alt)
        IN  /\ pc = "matched" =>
                   NewlyActivated(twin, [i \in Ids |-> MatchEntry(twin[i], scanned)],
                                  activated)
                       = NewlyActivated(Entries, matches, activated)
            /\ pc = "resolved" =>
                   LET orders == AllocationOrders(twin, candidates \ activated)
                       room == Room(twin, kept, book.token_budget)
                   IN  /\ orders = AllocationOrders(Entries, candidates \ activated)
                       /\ room = PassRoom
                       /\ \A order \in orders :
                              Evict(twin, order, room) = Evict(Entries, order, room)
            /\ pc = "allocated" =>
                   \A pos \in {"before_char", "after_char"} :
                       Blocks(twin, admitted, pos) = Blocks(Entries, admitted, pos)

\* An entry that is not selective and not constant has a secondary key that
\* was not matched, and is a candidate on its primary key.
C28_Witness ==
    /\ pc = "resolved"
    /\ \E i \in candidates :
           /\ ~IsTrue(Entries[i].selective)
           /\ ~IsTrue(Entries[i].constant)
           /\ Entries[i].secondary_keys = {{<<"j">>}}
           /\ matches[i].primary
           /\ ~matches[i].secondary

\* ---------------------------------------------------------------- C29
\* C29: the greedy allocator (admit in order, stop at the first candidate
\* that does not fit) and the eviction rule (while the combined content
\* exceeds the budget, drop the last candidate of the order) admit the same
\* candidates, whatever the candidate set, the room and the total order on
\* the candidates.
C29_GreedyEqualsEviction ==
    pc = "resolved" =>
        \A order \in Perms(candidates \ activated) :
            Greedy(Entries, order, PassRoom) = Evict(Entries, order, PassRoom)

\* Under budget pressure with several candidates: in an order the allocator
\* may use, some candidates are admitted and at least two are dropped.
C29_Witness ==
    /\ pc = "resolved"
    /\ \E order \in AllocationOrders(Entries, candidates \ activated) :
           /\ Greedy(Entries, order, PassRoom) # <<>>
           /\ Len(Greedy(Entries, order, PassRoom)) + 2 <= Len(order)

\* ---------------------------------------------------------------- C30
\* The texts the recursive pass scans beyond the messages of the window.
RescannedTexts ==
    SubSeq(scanned, Len(ScanWindow(history, book.scan_depth)) + 1, Len(scanned))

\* The candidates of the first pass that the allocator dropped.
DroppedFirstPass == activated \ kept

\* C30: with recursive_scanning true the recursive pass scans, beyond the
\* messages of the window, the content of each entry admitted in the first
\* pass and nothing else; an entry that is not constant and has no key in
\* the window nor in the content of an admitted entry is not a candidate,
\* whatever the content of the dropped candidates holds.
C30_OnlyAdmittedContentRescanned ==
    passes > 0 =>
        /\ IsTrue(book.recursive_scanning)
        /\ Len(RescannedTexts) = Cardinality(kept)
        /\ \A c \in kept : \E n \in 1..Len(RescannedTexts) :
               RescannedTexts[n] = Entries[c].content
        /\ Resolved =>
               \A d \in DroppedFirstPass, j \in Ids :
                   (/\ Triggers(d, j)
                    /\ ~IsTrue(Entries[j].constant)
                    /\ ~KeyInWindow(j)
                    /\ ~KeyInInserted(j)) => j \notin candidates

\* The recursive pass has run; a candidate of the first pass was dropped and
\* its content holds a key of an enabled, non-selective entry that has no key
\* anywhere else in the scanned text, and that entry is not a candidate.
C30_Witness ==
    /\ passes > 0
    /\ Resolved
    /\ \E d \in DroppedFirstPass, j \in Ids :
           /\ Triggers(d, j)
           /\ Entries[j].enabled
           /\ ~IsTrue(Entries[j].selective)
           /\ ~IsTrue(Entries[j].constant)
           /\ ~KeyInWindow(j)
           /\ ~KeyInInserted(j)
           /\ j \notin candidates

====
